---- MODULE Spec2Model ----
(***************************************************************************)
(* Model of alloy-compat (src/src/lib.rs): conversions between the types   *)
(* of alloy_primitives ("alloy::...") and ethereum_types ("eth::...").     *)
(*                                                                         *)
(* A value is a record [ty, ...] that mirrors the Rust struct:             *)
(*   alloy::FixedBytes<N>  [ty, f0 |-> <<N bytes>>]                        *)
(*   alloy::Address        [ty, f0 |-> FixedBytes<20> value]  (newtype)    *)
(*   alloy::Bloom          [ty, f0 |-> FixedBytes<256> value] (newtype)    *)
(*   eth::H*, eth::Bloom   [ty, f0 |-> <<N bytes>>]                        *)
(*   alloy::Uint<B, L>     [ty, limbs |-> <<L limbs>>]  limbs[1] lowest    *)
(*   eth::U*               [ty, f0 |-> <<n_words limbs>>] f0[1] lowest     *)
(* A u64 limb does not fit a TLC integer: it is the tuple of its eight     *)
(* base-256 digits, most significant digit first (as the number is         *)
(* written), so that 1u64 is <<0,0,0,0,0,0,0,1>>.                          *)
(***************************************************************************)
EXTENDS Integers, Sequences, FiniteSets, TLC

VARIABLES
    val,        \* the value the caller holds: a fresh one, or the last result
    orig,       \* the value the caller constructed at the start of the chain
    depth,      \* number of conversions applied to orig so far in this chain
    calls,      \* number of conversions made since the start of the program
    last,       \* frame of the latest call: self, U, rule, bytes, out
    first,      \* frame of the first call the program ever made
    panicked    \* a conversion panicked: the program has aborted

vars == <<val, orig, depth, calls, last, first, panicked>>

(* Bounds of the model. *)
MaxCalls == 3
MaxSeed == 1

NoCall == [rule |-> "none"]
PANIC == [ty |-> "panic"]

(***************************************************************************)
(* The types of the two libraries.                                         *)
(***************************************************************************)
AlloyFixedBytes ==
    {"alloy::B32", "alloy::B64", "alloy::B128", "alloy::B160", "alloy::B256",
     "alloy::B264", "alloy::B512", "alloy::B520", "alloy::B2048"}
EthFixedHash ==
    {"eth::H32", "eth::H64", "eth::H128", "eth::H160", "eth::H256",
     "eth::H264", "eth::H512", "eth::H520", "eth::Bloom"}
AlloyUint == {"alloy::U64", "alloy::U128", "alloy::U256", "alloy::U512"}
EthUint == {"eth::U64", "eth::U128", "eth::U256", "eth::U512"}
AlloyNewtype == {"alloy::Address", "alloy::Bloom"}

AlloyTypes == AlloyFixedBytes \cup AlloyNewtype \cup AlloyUint
EthTypes == EthFixedHash \cup EthUint
AllTypes == AlloyTypes \cup EthTypes

(* ethereum_types::Address is a type alias of H160: line 110 builds the    *)
(* Address it returns with the H160 constructor.                           *)
EthAddress == "eth::H160"

(* Byte length of a fixed-size type. *)
LenOf(ty) ==
    CASE ty \in {"alloy::B32", "eth::H32"} -> 4
      [] ty \in {"alloy::B64", "eth::H64"} -> 8
      [] ty \in {"alloy::B128", "eth::H128"} -> 16
      [] ty \in {"alloy::B160", "eth::H160", "alloy::Address"} -> 20
      [] ty \in {"alloy::B256", "eth::H256"} -> 32
      [] ty \in {"alloy::B264", "eth::H264"} -> 33
      [] ty \in {"alloy::B512", "eth::H512"} -> 64
      [] ty \in {"alloy::B520", "eth::H520"} -> 65
      [] ty \in {"alloy::B2048", "alloy::Bloom", "eth::Bloom"} -> 256

(* Uint<BITS, LIMBS>::BITS of the alloy integer types. *)
BITS(ty) ==
    CASE ty = "alloy::U64" -> 64
      [] ty = "alloy::U128" -> 128
      [] ty = "alloy::U256" -> 256
      [] ty = "alloy::U512" -> 512

(* Uint<BITS, LIMBS>::LIMBS and Uint::BYTES = (BITS + 7) / 8. *)
LIMBS(ty) == (BITS(ty) + 63) \div 64
BYTES(ty) == (BITS(ty) + 7) \div 8

(* n_words of the construct_uint! types of ethereum_types. *)
n_words(ty) ==
    CASE ty = "eth::U64" -> 1
      [] ty = "eth::U128" -> 2
      [] ty = "eth::U256" -> 4
      [] ty = "eth::U512" -> 8

(***************************************************************************)
(* Sequences of bytes.                                                     *)
(***************************************************************************)
Reverse(s) == [i \in 1..Len(s) |-> s[Len(s) + 1 - i]]

(* u64::to_le_bytes and u64::from_le_bytes on a limb. *)
u64_to_le_bytes(limb) == Reverse(limb)
u64_from_le_bytes(b) == Reverse(b)

(* The 8-byte chunk number i (from 1) of a byte sequence. *)
Chunk(s, i) == SubSeq(s, 8 * (i - 1) + 1, 8 * i)

(* The concatenation of the little-endian bytes of the limbs, lowest first. *)
LimbsToLe(limbs) ==
    [k \in 1..(8 * Len(limbs)) |->
        u64_to_le_bytes(limbs[((k - 1) \div 8) + 1])[((k - 1) % 8) + 1]]

(* The limbs read from n * 8 little-endian bytes. *)
LimbsFromLe(b, n) == [i \in 1..n |-> u64_from_le_bytes(Chunk(b, i))]

(* The tuple-struct constructors. *)
FixedBytes(bytes) ==
    [ty |-> CHOOSE t \in AlloyFixedBytes : LenOf(t) = Len(bytes), f0 |-> bytes]
EthHash(eth, bytes) == [ty |-> eth, f0 |-> bytes]
AlloyNew(alloy, inner) == [ty |-> alloy, f0 |-> inner]

(***************************************************************************)
(* The values the caller constructs (with the libraries' own constructors) *)
(* before it converts them.                                                *)
(***************************************************************************)
Fill(n, b) == [i \in 1..n |-> b]

(* Bytes that are pairwise distinct for n <= 256 (the multiplier is odd). *)
Ramp(n, s) == [i \in 1..n |-> ((2 * s - 1) * i + 7 * s) % 256]

Patterns(n) == {Fill(n, 0), Fill(n, 255)} \cup {Ramp(n, s) : s \in 1..MaxSeed}

(* address!("deadbeefdeadbeefdeadbeefdeadbeef00000000") of tests::address. *)
DeadBeef ==
    <<222, 173, 190, 239, 222, 173, 190, 239, 222, 173, 190, 239,
      222, 173, 190, 239, 0, 0, 0, 0>>

(* The bytes of tests::bloom: b"deadbeef" in every 8-byte chunk, and       *)
(* b"f0000000" in the last one.                                            *)
BloomBytes ==
    [i \in 1..256 |->
        IF i <= 248
        THEN <<100, 101, 97, 100, 98, 101, 101, 102>>[((i - 1) % 8) + 1]
        ELSE <<102, 48, 48, 48, 48, 48, 48, 48>>[i - 248]]

(* The limbs of MAX - 1 and of 1 at n limbs. *)
MaxMinusOne(n) ==
    [i \in 1..n |-> IF i = 1 THEN <<255, 255, 255, 255, 255, 255, 255, 254>>
                    ELSE Fill(8, 255)]
One(n) ==
    [i \in 1..n |-> IF i = 1 THEN <<0, 0, 0, 0, 0, 0, 0, 1>> ELSE Fill(8, 0)]

LimbInputs(n) ==
    {[i \in 1..n |-> Chunk(p, i)] : p \in Patterns(8 * n)}
        \cup {MaxMinusOne(n), One(n)}

InputsOf(ty) ==
    CASE ty = "alloy::Address" ->
            {AlloyNew(ty, FixedBytes(p)) : p \in Patterns(20) \cup {DeadBeef}}
      [] ty = "alloy::Bloom" ->
            {AlloyNew(ty, FixedBytes(p)) : p \in Patterns(256) \cup {BloomBytes}}
      [] ty = "eth::H160" ->
            {EthHash(ty, p) : p \in Patterns(20) \cup {DeadBeef}}
      [] ty = "eth::Bloom" ->
            {EthHash(ty, p) : p \in Patterns(256) \cup {BloomBytes}}
      [] ty \in AlloyFixedBytes -> {FixedBytes(p) : p \in Patterns(LenOf(ty))}
      [] ty \in EthFixedHash -> {EthHash(ty, p) : p \in Patterns(LenOf(ty))}
      [] ty \in AlloyUint -> {[ty |-> ty, limbs |-> l] : l \in LimbInputs(LIMBS(ty))}
      [] ty \in EthUint -> {[ty |-> ty, f0 |-> l] : l \in LimbInputs(n_words(ty))}

Inputs == UNION {InputsOf(ty) : ty \in AllTypes}

(***************************************************************************)
(* The library operations the conversions call.                            *)
(***************************************************************************)
(* Mutant of to_le_bytes: the bytes most significant first (to_be_bytes). *)
to_be_bytes(self, N) ==
    IF N # BYTES(self.ty) THEN PANIC
    ELSE Reverse(SubSeq(LimbsToLe(self.limbs), 1, N))

(* alloy Uint::to_le_bytes::<N>(): the N = Self::BYTES little-endian bytes *)
(* of the value; it panics when N is not Self::BYTES.                      *)
to_le_bytes(self, N) ==
    IF N # BYTES(self.ty) THEN PANIC
    ELSE SubSeq(LimbsToLe(self.limbs), 1, N)

(* ethereum_types U*::from_little_endian(slice): asserts that the slice    *)
(* is at most n_words * 8 bytes, zero-extends it, and reads the words.     *)
from_little_endian(eth, slice) ==
    IF slice = PANIC \/ Len(slice) > 8 * n_words(eth) THEN PANIC
    ELSE LET padded == [k \in 1..(8 * n_words(eth)) |->
                            IF k <= Len(slice) THEN slice[k] ELSE 0]
         IN  [ty |-> eth, f0 |-> LimbsFromLe(padded, n_words(eth))]

(* ethereum_types U*::to_little_endian(&mut bytes): writes word i at       *)
(* bytes[8 * i..]; the write panics when the buffer is too short.  The     *)
(* conversions only pass a buffer of exactly n_words * 8 bytes.            *)
to_little_endian(self, bytes) ==
    IF Len(bytes) < 8 * n_words(self.ty) THEN PANIC
    ELSE LET le == LimbsToLe(self.f0)
         IN  [k \in 1..Len(bytes) |-> IF k <= Len(le) THEN le[k] ELSE bytes[k]]

(* ethereum_types U*::from_big_endian and U*::to_big_endian, which the     *)
(* mutants below call in place of the little-endian operations.            *)
from_big_endian(eth, slice) ==
    IF slice = PANIC \/ Len(slice) > 8 * n_words(eth) THEN PANIC
    ELSE LET padded == [k \in 1..(8 * n_words(eth)) |->
                            IF k <= Len(slice) THEN Reverse(slice)[k] ELSE 0]
         IN  [ty |-> eth, f0 |-> LimbsFromLe(padded, n_words(eth))]

to_big_endian(self, bytes) ==
    IF Len(bytes) < 8 * n_words(self.ty) THEN PANIC
    ELSE LET be == Reverse(LimbsToLe(self.f0))
         IN  [k \in 1..Len(bytes) |-> IF k <= Len(be) THEN be[k] ELSE bytes[k]]

(* alloy Uint::from_le_bytes::<N>(bytes): panics when N is not Self::BYTES. *)
from_le_bytes(alloy, bytes) ==
    IF bytes = PANIC \/ Len(bytes) # BYTES(alloy) THEN PANIC
    ELSE [ty |-> alloy, limbs |-> LimbsFromLe(bytes, LIMBS(alloy))]

(***************************************************************************)
(* mod sealed: the conversion rules.  Each returns the frame of the call:  *)
(* the rule that ran, its local `bytes` and the value it returns.          *)
(***************************************************************************)
(* Mutant of compat_fixed_bytes_pairs: the disabled B160 : H160 line of    *)
(* the invocation is enabled.                                              *)
compat_fixed_bytes_pairs_with_B160 ==
    { <<"alloy::B64", "eth::H64">>,
      <<"alloy::B128", "eth::H128">>,
      <<"alloy::B160", "eth::H160">>,
      <<"alloy::B256", "eth::H256">>,
      <<"alloy::B512", "eth::H512">> }

(* Mutant of compat_fixed_bytes_pairs: every disabled line is enabled. *)
compat_fixed_bytes_pairs_all_lines ==
    { <<"alloy::B32", "eth::H32">>,
      <<"alloy::B64", "eth::H64">>,
      <<"alloy::B128", "eth::H128">>,
      <<"alloy::B160", "eth::H160">>,
      <<"alloy::B256", "eth::H256">>,
      <<"alloy::B264", "eth::H264">>,
      <<"alloy::B512", "eth::H512">>,
      <<"alloy::B520", "eth::H520">> }

(* compat_fixed_bytes!: the pairs the macro is invoked with. *)
compat_fixed_bytes_pairs ==
    { <<"alloy::B64", "eth::H64">>,
      <<"alloy::B128", "eth::H128">>,
      <<"alloy::B256", "eth::H256">>,
      <<"alloy::B512", "eth::H512">> }

(* compat_uint!: the pairs the macro is invoked with. *)
compat_uint_pairs ==
    { <<"alloy::U64", "eth::U64">>,
      <<"alloy::U128", "eth::U128">>,
      <<"alloy::U256", "eth::U256">>,
      <<"alloy::U512", "eth::U512">> }

(* impl Compat<$eth> for $alloy of compat_fixed_bytes! *)
compat_fixed_bytes_alloy_to_eth(self, eth) ==
    LET bytes == self.f0
    IN  [rule |-> "compat_fixed_bytes: alloy to eth",
         bytes |-> bytes, out |-> EthHash(eth, bytes)]

(* Mutant of compat_fixed_bytes_eth_to_alloy: the bytes are copied in      *)
(* reverse order.                                                          *)
compat_fixed_bytes_eth_to_alloy_reversed(self, alloy) ==
    LET bytes == Reverse(self.f0)
    IN  [rule |-> "compat_fixed_bytes: eth to alloy",
         bytes |-> bytes, out |-> FixedBytes(bytes)]

(* impl Compat<$alloy> for $eth of compat_fixed_bytes! *)
compat_fixed_bytes_eth_to_alloy(self, alloy) ==
    LET bytes == self.f0
    IN  [rule |-> "compat_fixed_bytes: eth to alloy",
         bytes |-> bytes, out |-> FixedBytes(bytes)]

(* Mutant of compat_uint_alloy_to_eth: both steps are big-endian, so the   *)
(* value survives but the buffer is not the little-endian one.             *)
compat_uint_alloy_to_eth_big_endian(self, eth) ==
    LET bytes == to_be_bytes(self, BYTES(self.ty))
    IN  [rule |-> "compat_uint: alloy to eth",
         bytes |-> bytes, out |-> from_big_endian(eth, bytes)]

(* impl Compat<$eth> for $alloy of compat_uint! *)
compat_uint_alloy_to_eth(self, eth) ==
    LET bytes == to_le_bytes(self, BYTES(self.ty))
    IN  [rule |-> "compat_uint: alloy to eth",
         bytes |-> bytes, out |-> from_little_endian(eth, bytes)]

(* Mutant of compat_uint_eth_to_alloy: the value is exported big-endian    *)
(* and imported little-endian.                                             *)
compat_uint_eth_to_alloy_mixed_endian(self, alloy) ==
    LET zeroed == [k \in 1..BYTES(alloy) |-> 0]
        bytes == to_big_endian(self, zeroed)
    IN  [rule |-> "compat_uint: eth to alloy",
         bytes |-> bytes, out |-> from_le_bytes(alloy, bytes)]

(* Mutant of compat_uint_eth_to_alloy: the buffer is sized by LIMBS        *)
(* instead of BYTES.                                                       *)
compat_uint_eth_to_alloy_limbs_buffer(self, alloy) ==
    LET zeroed == [k \in 1..LIMBS(alloy) |-> 0]
        bytes == to_little_endian(self, zeroed)
    IN  [rule |-> "compat_uint: eth to alloy",
         bytes |-> bytes, out |-> from_le_bytes(alloy, bytes)]

(* impl Compat<$alloy> for $eth of compat_uint! *)
compat_uint_eth_to_alloy(self, alloy) ==
    LET zeroed == [k \in 1..BYTES(alloy) |-> 0]
        bytes == to_little_endian(self, zeroed)
    IN  [rule |-> "compat_uint: eth to alloy",
         bytes |-> bytes, out |-> from_le_bytes(alloy, bytes)]

(* impl Compat<ethereum_types::Address> for alloy_primitives::Address *)
compat_address_alloy_to_eth(self) ==
    LET bytes == self.f0.f0
    IN  [rule |-> "Address: alloy to eth",
         bytes |-> bytes, out |-> EthHash("eth::H160", bytes)]

(* impl Compat<alloy_primitives::Address> for ethereum_types::Address *)
compat_address_eth_to_alloy(self) ==
    LET bytes == self.f0
    IN  [rule |-> "Address: eth to alloy",
         bytes |-> bytes, out |-> AlloyNew("alloy::Address", FixedBytes(bytes))]

(* Mutant of compat_bloom_alloy_to_eth: only the first 32 bytes are        *)
(* copied, the rest of the destination stays zero.                         *)
compat_bloom_alloy_to_eth_truncated(self) ==
    LET src == [k \in 1..256 |-> IF k <= 32 THEN self.f0.f0[k] ELSE 0]
    IN  [rule |-> "Bloom: alloy to eth",
         bytes |-> src, out |-> EthHash("eth::Bloom", src)]

(* impl Compat<ethereum_types::Bloom> for alloy_primitives::Bloom *)
compat_bloom_alloy_to_eth(self) ==
    LET src == self.f0.f0
    IN  [rule |-> "Bloom: alloy to eth",
         bytes |-> src, out |-> EthHash("eth::Bloom", src)]

(* impl Compat<alloy_primitives::Bloom> for ethereum_types::Bloom *)
compat_bloom_eth_to_alloy(self) ==
    LET src == self.f0
    IN  [rule |-> "Bloom: eth to alloy",
         bytes |-> src, out |-> AlloyNew("alloy::Bloom", FixedBytes(src))]

(* The impl of sealed::Compat<U> for S, by its place in the source; "none" *)
(* when there is no such impl and the call does not compile.               *)
sealed_impl(S, U) ==
    CASE <<S, U>> \in compat_fixed_bytes_pairs -> "compat_fixed_bytes: alloy to eth"
      [] <<U, S>> \in compat_fixed_bytes_pairs -> "compat_fixed_bytes: eth to alloy"
      [] <<S, U>> \in compat_uint_pairs -> "compat_uint: alloy to eth"
      [] <<U, S>> \in compat_uint_pairs -> "compat_uint: eth to alloy"
      [] S = "alloy::Address" /\ U = EthAddress -> "Address: alloy to eth"
      [] S = EthAddress /\ U = "alloy::Address" -> "Address: eth to alloy"
      [] S = "alloy::Bloom" /\ U = "eth::Bloom" -> "Bloom: alloy to eth"
      [] S = "eth::Bloom" /\ U = "alloy::Bloom" -> "Bloom: eth to alloy"
      [] OTHER -> "none"

(* sealed::Compat::compat(self) at destination type U. *)
sealed_compat(self, U) ==
    LET impl == sealed_impl(self.ty, U)
    IN  CASE impl = "compat_fixed_bytes: alloy to eth" ->
                compat_fixed_bytes_alloy_to_eth(self, U)
          [] impl = "compat_fixed_bytes: eth to alloy" ->
                compat_fixed_bytes_eth_to_alloy(self, U)
          [] impl = "compat_uint: alloy to eth" -> compat_uint_alloy_to_eth(self, U)
          [] impl = "compat_uint: eth to alloy" -> compat_uint_eth_to_alloy(self, U)
          [] impl = "Address: alloy to eth" -> compat_address_alloy_to_eth(self)
          [] impl = "Address: eth to alloy" -> compat_address_eth_to_alloy(self)
          [] impl = "Bloom: alloy to eth" -> compat_bloom_alloy_to_eth(self)
          [] impl = "Bloom: eth to alloy" -> compat_bloom_eth_to_alloy(self)

(* The bound `Self: sealed::Compat<U>` of Compat::compat. *)
Resolves(S, U) == sealed_impl(S, U) # "none"

(* Mutant of compat: an all-zero source takes a shortcut that builds the   *)
(* destination without running the rule of the pair.                       *)
compat_zero_shortcut(self, U) ==
    LET r == sealed_compat(self, U)
    IN  IF \A k \in 1..Len(r.bytes) : r.bytes[k] = 0
        THEN [rule |-> "zero shortcut", bytes |-> <<>>, out |-> r.out]
        ELSE r

(* impl<T> Compat for T: the public entry point self.compat::<U>(). *)
compat(self, U) == sealed_compat(self, U)

(***************************************************************************)
(* The program: a caller that constructs values and converts them.         *)
(***************************************************************************)
Init ==
    /\ val \in Inputs
    /\ orig = val
    /\ depth = 0
    /\ calls = 0
    /\ last = NoCall
    /\ first = NoCall
    /\ panicked = FALSE

(* The caller drops the result it holds and constructs a new value to     *)
(* convert (none once the bound on the number of calls is reached).        *)
NewValue ==
    /\ ~panicked
    /\ depth > 0
    /\ calls < MaxCalls
    /\ \E v \in Inputs :
        /\ val' = v
        /\ orig' = v
    /\ depth' = 0
    /\ last' = NoCall
    /\ UNCHANGED <<calls, first, panicked>>

(* val.compat::<U>(): the call, its frame, and the value it hands back. *)
Call(U) ==
    /\ ~panicked
    /\ calls < MaxCalls
    /\ LET f == compat(val, U)
           frame == [self |-> val, U |-> U, rule |-> f.rule,
                     bytes |-> f.bytes, out |-> f.out]
       IN  /\ last' = frame
           /\ first' = IF first = NoCall THEN frame ELSE first
           /\ panicked' = (f.out = PANIC)
           /\ val' = IF f.out = PANIC THEN val ELSE f.out
    /\ depth' = depth + 1
    /\ calls' = calls + 1
    /\ UNCHANGED orig

(* One action for each impl of sealed::Compat the call can resolve to. *)
CompatFixedBytesAlloyToEth ==
    \E U \in AllTypes :
        /\ sealed_impl(val.ty, U) = "compat_fixed_bytes: alloy to eth"
        /\ Call(U)

CompatFixedBytesEthToAlloy ==
    \E U \in AllTypes :
        /\ sealed_impl(val.ty, U) = "compat_fixed_bytes: eth to alloy"
        /\ Call(U)

CompatUintAlloyToEth ==
    \E U \in AllTypes :
        /\ sealed_impl(val.ty, U) = "compat_uint: alloy to eth"
        /\ Call(U)

CompatUintEthToAlloy ==
    \E U \in AllTypes :
        /\ sealed_impl(val.ty, U) = "compat_uint: eth to alloy"
        /\ Call(U)

CompatAddressAlloyToEth ==
    \E U \in AllTypes :
        /\ sealed_impl(val.ty, U) = "Address: alloy to eth"
        /\ Call(U)

CompatAddressEthToAlloy ==
    \E U \in AllTypes :
        /\ sealed_impl(val.ty, U) = "Address: eth to alloy"
        /\ Call(U)

CompatBloomAlloyToEth ==
    \E U \in AllTypes :
        /\ sealed_impl(val.ty, U) = "Bloom: alloy to eth"
        /\ Call(U)

CompatBloomEthToAlloy ==
    \E U \in AllTypes :
        /\ sealed_impl(val.ty, U) = "Bloom: eth to alloy"
        /\ Call(U)

Next ==
    \/ NewValue
    \/ CompatFixedBytesAlloyToEth
    \/ CompatFixedBytesEthToAlloy
    \/ CompatUintAlloyToEth
    \/ CompatUintEthToAlloy
    \/ CompatAddressAlloyToEth
    \/ CompatAddressEthToAlloy
    \/ CompatBloomAlloyToEth
    \/ CompatBloomEthToAlloy

Spec == Init /\ [][Next]_vars

(***************************************************************************)
(* Vocabulary of the properties.                                           *)
(***************************************************************************)
(* The raw bytes of a fixed-size value (as_slice / as_bytes). *)
RawBytes(v) == IF v.ty \in AlloyNewtype THEN v.f0.f0 ELSE v.f0

(* The limbs of a wide integer, lowest first, of either library. *)
LimbsOf(v) == IF v.ty \in AlloyUint THEN v.limbs ELSE v.f0

(* The mathematical value of a wide integer: its base-256 numeral, most    *)
(* significant digit first.                                                *)
NumDigits(v) ==
    LET l == LimbsOf(v)
        n == Len(l)
    IN  [k \in 1..(8 * n) |-> l[n - ((k - 1) \div 8)][((k - 1) % 8) + 1]]

(* Width in bits of a type. *)
WidthOf(ty) ==
    CASE ty \in AlloyUint -> BITS(ty)
      [] ty \in EthUint -> 64 * n_words(ty)
      [] OTHER -> 8 * LenOf(ty)

UintTypes == AlloyUint \cup EthUint
UintRules == {"compat_uint: alloy to eth", "compat_uint: eth to alloy"}
FixedRules ==
    {"compat_fixed_bytes: alloy to eth", "compat_fixed_bytes: eth to alloy",
     "Address: alloy to eth", "Address: eth to alloy",
     "Bloom: alloy to eth", "Bloom: eth to alloy"}

(* The table of pairings of the specification (byte lengths 8, 16, 32 and  *)
(* 64, the address, the bloom filter, integers of 64 to 512 bits), as      *)
(* (Representation A type, Representation B type).                         *)
SpecPairings ==
    { <<"alloy::B64", "eth::H64">>, <<"alloy::B128", "eth::H128">>,
      <<"alloy::B256", "eth::H256">>, <<"alloy::B512", "eth::H512">>,
      <<"alloy::Address", EthAddress>>, <<"alloy::Bloom", "eth::Bloom">>,
      <<"alloy::U64", "eth::U64">>, <<"alloy::U128", "eth::U128">>,
      <<"alloy::U256", "eth::U256">>, <<"alloy::U512", "eth::U512">> }

(* The pairings as (source, destination), in both directions. *)
SupportedPairings == SpecPairings \cup {<<p[2], p[1]>> : p \in SpecPairings}

FixedSources ==
    {p[1] : p \in {q \in SupportedPairings : q[1] \notin UintTypes}}

(* The fixed-size types of 4, 33 and 65 bytes, and the generic 20-byte     *)
(* types of the two libraries.                                             *)
Excluded ==
    {"alloy::B32", "eth::H32", "alloy::B264", "eth::H264",
     "alloy::B520", "eth::H520"}
Generic20 == {"alloy::B160", "eth::H160"}
LenOf20(ty) == ty \notin UintTypes /\ LenOf(ty) = 20

(* A well-formed value of type ty. *)
WellFormed(v, ty) ==
    /\ v # PANIC
    /\ v.ty = ty
    /\ IF ty \in UintTypes
       THEN /\ Len(LimbsOf(v)) * 64 = WidthOf(ty)
            /\ \A i \in 1..Len(LimbsOf(v)) :
                /\ Len(LimbsOf(v)[i]) = 8
                /\ \A k \in 1..8 : LimbsOf(v)[i][k] \in 0..255
       ELSE /\ Len(RawBytes(v)) = LenOf(ty)
            /\ \A k \in 1..Len(RawBytes(v)) : RawBytes(v)[k] \in 0..255

(***************************************************************************)
(* C1  Wide-integer round trip: a wide integer of either library that is   *)
(* converted to the other library and back (any even number of             *)
(* conversions) is the value the caller started from.                      *)
(***************************************************************************)
C1_UintRoundTrip ==
    (orig.ty \in UintTypes /\ depth > 0 /\ depth % 2 = 0)
        => (~panicked /\ val = orig)

C1_Witness ==
    /\ depth = 2
    /\ orig = [ty |-> "eth::U256", f0 |-> [i \in 1..4 |-> Chunk(Ramp(32, 1), i)]]
    /\ last.self.ty = "alloy::U256"
    /\ val = orig

(***************************************************************************)
(* C2  Numeric-value preservation: one conversion of a wide integer, in    *)
(* either direction, returns a value with the same numeral; MAX - 1 at     *)
(* 128 bits converts to MAX - 1 both ways (tests::u128).                   *)
(***************************************************************************)
C2_NumericValue ==
    (last # NoCall /\ last.rule \in UintRules) =>
        /\ last.out # PANIC
        /\ last.out.ty = last.U
        /\ NumDigits(last.out) = NumDigits(last.self)
        /\ (last.self = [ty |-> "eth::U128", f0 |-> MaxMinusOne(2)]
                => last.out = [ty |-> "alloy::U128", limbs |-> MaxMinusOne(2)])
        /\ (last.self = [ty |-> "alloy::U128", limbs |-> MaxMinusOne(2)]
                => last.out = [ty |-> "eth::U128", f0 |-> MaxMinusOne(2)])

C2_Witness ==
    /\ last # NoCall
    /\ last.self = [ty |-> "alloy::U128", limbs |-> MaxMinusOne(2)]
    /\ NumDigits(last.out) =
         <<255, 255, 255, 255, 255, 255, 255, 255,
           255, 255, 255, 255, 255, 255, 255, 254>>

(***************************************************************************)
(* C3  Byte identity: a fixed-size conversion returns a value of the same  *)
(* length as its source whose byte i is byte i of the source.              *)
(***************************************************************************)
C3_ByteIdentity ==
    (last # NoCall /\ last.rule \in FixedRules) =>
        /\ last.out # PANIC
        /\ Len(RawBytes(last.out)) = Len(RawBytes(last.self))
        /\ Len(RawBytes(last.out)) = LenOf(last.U)
        /\ \A i \in 1..Len(RawBytes(last.self)) :
            RawBytes(last.out)[i] = RawBytes(last.self)[i]

C3_Witness ==
    /\ last # NoCall
    /\ last.self = AlloyNew("alloy::Bloom", FixedBytes(BloomBytes))
    /\ last.out.ty = "eth::Bloom"
    /\ RawBytes(last.out)[249] = 102

(***************************************************************************)
(* C4  Fixed-size round trip: a fixed-size value of a supported pairing    *)
(* that is converted to the other library and back is the value the        *)
(* caller started from.                                                    *)
(***************************************************************************)
C4_FixedRoundTrip ==
    (orig.ty \in FixedSources /\ depth > 0 /\ depth % 2 = 0)
        => (~panicked /\ val = orig)

C4_Witness ==
    /\ depth = 2
    /\ orig = AlloyNew("alloy::Address", FixedBytes(DeadBeef))
    /\ last.self = EthHash("eth::H160", DeadBeef)
    /\ val = orig

(***************************************************************************)
(* C5  The pairs a conversion resolves for are exactly the pairings of     *)
(* the specification's table, each in both directions and between types    *)
(* of the same width; every call made is of such a pair.                   *)
(***************************************************************************)
C5_ClosedTable ==
    /\ \A U \in AllTypes : Resolves(val.ty, U) <=> <<val.ty, U>> \in SupportedPairings
    /\ \A U \in AllTypes : Resolves(U, val.ty) <=> <<U, val.ty>> \in SupportedPairings
    /\ \A U \in AllTypes : Resolves(val.ty, U) => WidthOf(val.ty) = WidthOf(U)
    /\ last # NoCall =>
        /\ <<last.self.ty, last.U>> \in SupportedPairings
        /\ <<last.U, last.self.ty>> \in SupportedPairings
        /\ WidthOf(last.self.ty) = WidthOf(last.U)

C5_Witness ==
    /\ calls = 2
    /\ first.self.ty = "alloy::Bloom"
    /\ last # NoCall
    /\ last.self.ty = "eth::Bloom"
    /\ last.U = "alloy::Bloom"

(***************************************************************************)
(* C6  Totality: no conversion panics; for every supported pairing whose   *)
(* source type is that of the value held, the conversion returns a         *)
(* well-formed value of the destination type.                              *)
(***************************************************************************)
C6_Total ==
    /\ ~panicked
    /\ \A U \in AllTypes :
        <<val.ty, U>> \in SupportedPairings => WellFormed(compat(val, U).out, U)
    /\ last # NoCall => WellFormed(last.out, last.U)

C6_Witness ==
    /\ ~panicked
    /\ last # NoCall
    /\ last.rule = "compat_uint: eth to alloy"
    /\ last.self.ty = "eth::U512"
    /\ Len(last.bytes) = 64
    /\ last.out = val

(***************************************************************************)
(* C7  A wide-integer conversion goes through a buffer of exactly bits / 8 *)
(* bytes (8, 16, 32 or 64) that holds the source's value least significant *)
(* byte first, and the destination is the little-endian reading of that    *)
(* buffer.                                                                 *)
(***************************************************************************)
C7_LittleEndianBuffer ==
    (last # NoCall /\ last.rule \in UintRules) =>
        /\ last.bytes # PANIC
        /\ 8 * Len(last.bytes) = WidthOf(last.self.ty)
        /\ Len(last.bytes) \in {8, 16, 32, 64}
        /\ last.bytes = Reverse(NumDigits(last.self))
        /\ last.out # PANIC
        /\ WidthOf(last.out.ty) = WidthOf(last.self.ty)
        /\ Reverse(NumDigits(last.out)) = last.bytes

C7_Witness ==
    /\ last # NoCall
    /\ last.rule = "compat_uint: alloy to eth"
    /\ last.self = [ty |-> "alloy::U128", limbs |-> One(2)]
    /\ last.bytes = <<1, 0, 0, 0, 0, 0, 0, 0, 0, 0, 0, 0, 0, 0, 0, 0>>

(***************************************************************************)
(* C8  As claimed: no conversion has a generic 20-byte type, or a 4-, 33-  *)
(* or 65-byte type, as its source or its destination.                      *)
(***************************************************************************)
C8_NoGeneric20 ==
    last # NoCall =>
        /\ last.self.ty \notin Generic20 \cup Excluded
        /\ last.U \notin Generic20 \cup Excluded

(* C8 as amended: alloy's generic 20-byte type and the 4-, 33- and 65-byte *)
(* types are the source or destination of no rule; a conversion of a       *)
(* 20-byte value is between alloy::Address and ethereum_types::Address,    *)
(* and the latter is ethereum_types' generic 20-byte type H160 itself.     *)
C8_NoAlloyGeneric20 ==
    /\ val.ty \in {"alloy::B160"} \cup Excluded =>
        \A U \in AllTypes : ~Resolves(val.ty, U) /\ ~Resolves(U, val.ty)
    /\ last # NoCall =>
        /\ last.self.ty \notin {"alloy::B160"} \cup Excluded
        /\ last.U \notin {"alloy::B160"} \cup Excluded
        /\ (LenOf20(last.self.ty) \/ LenOf20(last.U)) =>
              {last.self.ty, last.U} = {"alloy::Address", "eth::H160"}
    /\ EthAddress = "eth::H160"

C8_Witness ==
    /\ last # NoCall
    /\ last.self = EthHash("eth::H160", DeadBeef)
    /\ last.out = AlloyNew("alloy::Address", FixedBytes(DeadBeef))

(***************************************************************************)
(* C9  The entry point is pure dispatch: the rule a call runs is the one   *)
(* of its pair of types, its frame is that of the elementary rule, and     *)
(* two calls of the same pair of types run the same rule.                  *)
(***************************************************************************)
RuleOfPair(S, U) ==
    CASE S \in AlloyUint /\ U \in EthUint -> "compat_uint: alloy to eth"
      [] S \in EthUint /\ U \in AlloyUint -> "compat_uint: eth to alloy"
      [] S = "alloy::Address" -> "Address: alloy to eth"
      [] U = "alloy::Address" -> "Address: eth to alloy"
      [] S = "alloy::Bloom" -> "Bloom: alloy to eth"
      [] U = "alloy::Bloom" -> "Bloom: eth to alloy"
      [] S \in AlloyFixedBytes -> "compat_fixed_bytes: alloy to eth"
      [] OTHER -> "compat_fixed_bytes: eth to alloy"

Elementary(rule, self, U) ==
    CASE rule = "compat_uint: alloy to eth" -> compat_uint_alloy_to_eth(self, U)
      [] rule = "compat_uint: eth to alloy" -> compat_uint_eth_to_alloy(self, U)
      [] rule = "Address: alloy to eth" -> compat_address_alloy_to_eth(self)
      [] rule = "Address: eth to alloy" -> compat_address_eth_to_alloy(self)
      [] rule = "Bloom: alloy to eth" -> compat_bloom_alloy_to_eth(self)
      [] rule = "Bloom: eth to alloy" -> compat_bloom_eth_to_alloy(self)
      [] rule = "compat_fixed_bytes: alloy to eth" ->
            compat_fixed_bytes_alloy_to_eth(self, U)
      [] rule = "compat_fixed_bytes: eth to alloy" ->
            compat_fixed_bytes_eth_to_alloy(self, U)

C9_PureDispatch ==
    /\ last # NoCall =>
        /\ last.rule = RuleOfPair(last.self.ty, last.U)
        /\ LET e == Elementary(RuleOfPair(last.self.ty, last.U), last.self, last.U)
           IN  last.bytes = e.bytes /\ last.out = e.out
    /\ (last # NoCall /\ first.self.ty = last.self.ty /\ first.U = last.U)
            => first.rule = last.rule

C9_Witness ==
    /\ calls = 3
    /\ depth = 1
    /\ first.self.ty = "alloy::B256"
    /\ last # NoCall
    /\ last.self.ty = "alloy::B256"
    /\ last.self # first.self
    /\ last.rule = "compat_fixed_bytes: alloy to eth"

(***************************************************************************)
(* C10 (conversions are stateless and deterministic) has no formula here.  *)
(* compat is an operator of its arguments alone, as the rules of           *)
(* mod sealed are functions of `self` alone: that two calls with the same  *)
(* value and destination type agree holds of any such operator, whatever   *)
(* the rule bodies compute, so no invariant over one behaviour tests it.   *)
(* The claim compares two runs of the program that differ in their         *)
(* history, which is a property of pairs of behaviours.                    *)
(***************************************************************************)

====
